---- MODULE Spec2Model ----
(***************************************************************************)
(* Job orchestration of the multimodal gateway (src/gateway) and the       *)
(* worker adapters it calls (src/workers).                                  *)
(*                                                                          *)
(* Spec           the gateway as deployed: create_job stores a job and      *)
(*                schedules execute_job_async once; executions of several  *)
(*                jobs interleave at the awaits of _call_worker.            *)
(* SpecRetrigger  Spec plus callers that invoke execute_job_async again     *)
(*                for a job identifier that already exists.                 *)
(* SpecCyclegan   one invocation after another of the image-transform       *)
(*                worker's generate handler, statement by statement.        *)
(* SpecStt        the same for the transcription worker.                    *)
(* SpecImage      the same for the image worker and its fallback chain.     *)
(* SpecWorkers    the four worker handlers modelled statement by statement  *)
(*                (image-transform, transcription, image, speech), each     *)
(*                behaviour following one of them.                          *)
(* SpecConcurrent up to NConcurrent jobs created and executed side by side.  *)
(* SpecExecute    PipelineExecutor.execute called on a Job object as it is, *)
(*                whatever its pipeline field holds.                        *)
(***************************************************************************)
EXTENDS Integers, Sequences, FiniteSets, TLC

VARIABLES
    store,   \* JobDB: job_id -> row of table jobs
    tasks,   \* the scheduled / running / finished calls of execute_job_async
    clock,   \* what datetime.utcnow() returns
    cg,      \* the image-transform worker's generate handler
    stt,     \* the transcription worker's generate handler
    img,     \* the image worker's generate handler
    tts      \* the speech worker's generate handler

vars == <<store, tasks, clock, cg, stt, img, tts>>

----------------------------------------------------------------------------
(* Bounds of the model *)

NJobs == 1      \* jobs created through POST /jobs
MaxTasks == 2   \* calls of execute_job_async under SpecRetrigger
NConcurrent == 2   \* jobs created under SpecConcurrent
NExecutions == 2   \* calls of execute on one Job object under SpecExecute

----------------------------------------------------------------------------
(* schemas.py *)

\* Python's None in an Optional[str] field
None == "None"

\* Python's None in an Optional[datetime] field; real timestamps are >= 1
NoTime == 0

PipelineType ==
    {"text_to_text", "text_to_image", "text_to_speech",
     "speech_to_text", "speech_to_image", "image_to_image"}

QUEUED == "queued"
RUNNING == "running"
COMPLETED == "completed"
FAILED == "failed"

JobStatus == {QUEUED, RUNNING, COMPLETED, FAILED}

\* Python truthiness of an Optional[str]
Truthy(s) == s # None /\ s # ""

\* Job(pipeline=..., inputs=..., options=...): the defaults of the other fields
Job(id, pipeline, inputs, options, now) ==
    [job_id   |-> id,
     pipeline |-> pipeline,
     inputs   |-> inputs,
     options  |-> options,
     status   |-> QUEUED,
     outputs  |-> [text |-> None, image_url |-> None, audio_url |-> None],
     metadata |-> [provider      |-> None,
                   created_at    |-> now,
                   started_at    |-> NoTime,
                   completed_at  |-> NoTime,
                   error_message |-> None,
                   worker_used   |-> None]]

----------------------------------------------------------------------------
(* db.py *)

\* the clock is read once per job created and at most twice per task
TimeRange == 0..(NJobs + 2 * (NJobs + MaxTasks) + 1)

\* datetime_serializer / json.dumps of an Optional[datetime]
IsoFormat(t) == IF t = NoTime THEN "null" ELSE "T" \o ToString(t)

\* pydantic's parse of the stored text back into Optional[datetime]
ParseIso(s) == CHOOSE t \in TimeRange : IsoFormat(t) = s

\* the column values create_job and update_job write
JobToRow(job) ==
    [job_id     |-> job.job_id,
     pipeline   |-> job.pipeline,
     inputs     |-> job.inputs,
     options    |-> job.options,
     status     |-> job.status,
     outputs    |-> job.outputs,
     metadata   |-> [provider      |-> job.metadata.provider,
                     created_at    |-> IsoFormat(job.metadata.created_at),
                     started_at    |-> IsoFormat(job.metadata.started_at),
                     completed_at  |-> IsoFormat(job.metadata.completed_at),
                     error_message |-> job.metadata.error_message,
                     worker_used   |-> job.metadata.worker_used],
     created_at |-> IsoFormat(job.metadata.created_at)]

\* _row_to_job
RowToJob(row) ==
    [job_id   |-> row.job_id,
     pipeline |-> row.pipeline,
     inputs   |-> row.inputs,
     options  |-> row.options,
     status   |-> row.status,
     outputs  |-> row.outputs,
     metadata |-> [provider      |-> row.metadata.provider,
                   created_at    |-> ParseIso(row.metadata.created_at),
                   started_at    |-> ParseIso(row.metadata.started_at),
                   completed_at  |-> ParseIso(row.metadata.completed_at),
                   error_message |-> row.metadata.error_message,
                   worker_used   |-> row.metadata.worker_used]]

\* JobDB.create_job: INSERT INTO jobs
DbCreateJob(db, job) == db @@ (job.job_id :> JobToRow(job))

\* update_job without its WHERE clause: every row takes the values
DbUpdateJobEveryRow(db, job) ==
    IF job.job_id \in DOMAIN db
    THEN [id \in DOMAIN db |-> [JobToRow(job) EXCEPT !.job_id = id]]
    ELSE db

\* JobDB.update_job: UPDATE jobs SET ... WHERE job_id = ?
DbUpdateJob(db, job) ==
    IF job.job_id \in DOMAIN db
    THEN [db EXCEPT ![job.job_id] = JobToRow(job)]
    ELSE db

\* JobDB.get_job: the job of the row, for a job_id that has a row
DbGetJob(db, id) == RowToJob(db[id])

----------------------------------------------------------------------------
(* What one POST of _call_worker can meet: the answer of the worker at the  *)
(* other end, or a failure of the transport.  An answer is                  *)
(* [kind, status, body]: body is the value under the key the caller reads   *)
(* (kind "ok") or the "detail" of a FastAPI HTTPException ("http_error").   *)

Ok(value) == [kind |-> "ok", status |-> 200, body |-> value]
Err(status, detail) == [kind |-> "http_error", status |-> status, body |-> detail]

\* no answer: httpx.ReadTimeout, httpx.ConnectError
TransportFailures ==
    {[kind |-> "timeout", status |-> 0, body |-> None],
     [kind |-> "connect_error", status |-> 0, body |-> None]}

\* a 200 answer that is not what the worker's response_model promises:
\* a JSON object without the key, a body that is no JSON object at all
MalformedBodies ==
    {[kind |-> "ok_missing", status |-> 200, body |-> None],
     [kind |-> "bad_body", status |-> 200, body |-> "<html>"]}

Pending == [kind |-> "pending", status |-> 0, body |-> None]

\* workers/llm/main.py generate: the text returned (line 76) and a failure
\* (line 81)
LlmText == "a cinematic, dramatic cat portrait"
LlmResponses == {Ok(LlmText), Err(429, "OpenRouter API error: rate limited")}

\* workers/image/main.py generate: the URL returned (lines 135-136) and a
\* failure (line 149)
ImageOut == "/storage/images/<uuid>.png"
ImageResponses ==
    {Ok(ImageOut), Err(500, "Image generation failed with all models. Last error: ")}

\* workers/tts/main.py generate: the URL returned (lines 112-115) and a
\* failure (line 119)
AudioOut == "/storage/audio/<uuid>.mp3"
TtsResponses == {Ok(AudioOut), Err(401, "ElevenLabs API error: unauthorized")}

----------------------------------------------------------------------------
(* workers/cyclegan/main.py: generate, one invocation after another.        *)
(* cg.sent holds the kinds of request the invocation has sent so far,       *)
(* cg.n_post the generation requests posted, cg.sleeps the delays slept,    *)
(* cg.rounds the times the body of the polling loop was entered, cg.size    *)
(* the length of what was downloaded.                                       *)

max_polls == 30
MinImageBytes == 100

UnreachableImage == "http://unreachable/x.png"
ImageUrls == {"http://host/x.png", UnreachableImage}

\* whether a GET of the reference can succeed at all
Reachable(url) == url # UnreachableImage

Min(a, b) == IF a < b THEN a ELSE b
Max(a, b) == IF a > b THEN a ELSE b

\* what the provider's JSON says: status, fetch_result and future_links
\* present or not, eta, output non-empty or not
Result(status, fetch, future, eta, output) ==
    [status |-> status, fetch |-> fetch, future |-> future, eta |-> eta,
     output |-> output]

NoResult == Result("none", FALSE, FALSE, 5, FALSE)

Etas == {1, 5, 20}

ProviderResults ==
    {Result("processing", f, l, e, FALSE) : f \in BOOLEAN, l \in BOOLEAN, e \in Etas}
    \cup {Result("success", FALSE, FALSE, 5, o) : o \in BOOLEAN}
    \cup {Result(st, FALSE, FALSE, 5, FALSE) : st \in {"error", "failed", "queued"}}

\* what a POST to the provider can meet
ProviderErrorStatuses == {400, 401, 404, 429, 500}
ProviderAnswers ==
    {[net |-> "json", status |-> 200, result |-> r] : r \in ProviderResults}
    \cup {[net |-> "status", status |-> st, result |-> NoResult] : st \in ProviderErrorStatuses}
    \cup {[net |-> n, status |-> 0, result |-> NoResult] : n \in {"timeout", "dns"}}
    \cup {[net |-> "not_json", status |-> 200, result |-> NoResult]}

\* except httpx.HTTPStatusError (lines 250-263)
CgOnHTTPStatusError(status) ==
    Err(status, "ModelLab API error (HTTP " \o ToString(status) \o "): ")

\* except httpx.RequestError (lines 264-272)
CgOnRequestError(net) ==
    IF net = "dns"
    THEN Err(500, "ModelLab API endpoint not reachable: ")
    ELSE Err(500, "Network error connecting to ModelLab API: ")

\* except Exception (lines 275-276)
CgOnException == Err(500, "Image transformation failed: ")

\* the failure of the accessibility precheck (line 90)
CgPrecheckFailure == Err(400, "Image URL is not accessible: ")

CgKeyFailure == Err(500, "MODELSLAB_API_KEY not configured")

CgIdle ==
    [pc |-> "idle", image_url |-> None, precheck |-> "none", result |-> NoResult,
     poll_count |-> 0, rounds |-> 0, sent |-> {}, n_post |-> 0, sleeps |-> {},
     size |-> 0, stored |-> 0, response |-> Pending]

\* return or raise out of the handler
CgReturn(c, response) == [c EXCEPT !.pc = "done", !.response = response]

\* the handler is entered (lines 45-76)
CgEnter(url, key) ==
    IF ~key
    THEN CgReturn([CgIdle EXCEPT !.image_url = url], CgKeyFailure)
    ELSE [CgIdle EXCEPT !.pc = "head", !.image_url = url]

CgReceive(url, key) ==
    /\ cg.pc \in {"idle", "done"}
    /\ cg' = CgEnter(url, key)
    /\ UNCHANGED <<store, tasks, clock, stt, img, tts>>

\* client.head(image_url) (lines 81-84)
CgAfterHead(c, ok) ==
    [c EXCEPT !.sent = @ \cup {"HEAD"},
              !.precheck = IF ok THEN "passed" ELSE @,
              !.pc = IF ok THEN "post" ELSE "get"]

CgHead(ok) ==
    /\ cg.pc = "head"
    /\ ok => Reachable(cg.image_url)
    /\ cg' = CgAfterHead(cg, ok)
    /\ UNCHANGED <<store, tasks, clock, stt, img, tts>>

\* the precheck without its raise: a failed GET is passed over
CgAfterGetPassedOver(c, ok) ==
    [c EXCEPT !.sent = @ \cup {"GET"},
              !.precheck = IF ok THEN "passed" ELSE "failed",
              !.pc = "post"]

\* client.get(image_url) after a failed HEAD (lines 85-90)
CgAfterGet(c, ok) ==
    IF ok
    THEN [c EXCEPT !.sent = @ \cup {"GET"}, !.precheck = "passed", !.pc = "post"]
    ELSE CgReturn([c EXCEPT !.sent = @ \cup {"GET"}, !.precheck = "failed"],
                  CgPrecheckFailure)

CgGet(ok) ==
    /\ cg.pc = "get"
    /\ ok => Reachable(cg.image_url)
    /\ cg' = CgAfterGet(cg, ok)
    /\ UNCHANGED <<store, tasks, clock, stt, img, tts>>

\* the generation request and the statuses handled in place (lines 118-137)
CgAfterPost(c, a) ==
    LET d == [c EXCEPT !.sent = @ \cup {"POST"}, !.n_post = @ + 1] IN
    CASE a.net \in {"timeout", "dns"} -> CgReturn(d, CgOnRequestError(a.net))
      [] a.net = "not_json" -> CgReturn(d, CgOnException)
      [] a.net = "status" /\ a.status = 401 ->
            CgReturn(d, Err(401, "Invalid ModelLab API key"))
      [] a.net = "status" /\ a.status = 429 ->
            CgReturn(d, Err(429, "ModelLab API rate limit exceeded"))
      [] a.net = "status" /\ a.status = 400 ->
            CgReturn(d, Err(400, "ModelLab API error: "))
      [] a.net = "status" /\ a.status \notin {400, 401, 429} ->
            CgReturn(d, CgOnHTTPStatusError(a.status))
      [] a.net = "json" ->
            [d EXCEPT !.result = a.result, !.poll_count = 0, !.pc = "loop"]

CgPost(a) ==
    /\ cg.pc = "post"
    /\ cg' = CgAfterPost(cg, a)
    /\ UNCHANGED <<store, tasks, clock, stt, img, tts>>

\* the part of an iteration after the future_links probe (lines 162-182)
CgWaitOrRepost(c) ==
    IF ~c.result.fetch
    THEN IF c.result.future
         THEN [c EXCEPT !.sleeps = @ \cup {5}, !.pc = "repost"]
         ELSE CgReturn(c, Err(500, "ModelLab API returned processing status but no fetch_result URL or future_links"))
    ELSE [c EXCEPT !.sleeps = @ \cup {Min(Max(c.result.eta, 2), 15)}, !.pc = "fetch"]

\* the loop test and the start of an iteration (lines 143-148)
CgLoopTest(c) ==
    IF c.result.status = "processing" /\ c.poll_count < max_polls
    THEN LET d == [c EXCEPT !.rounds = @ + 1] IN
         IF d.result.future THEN [d EXCEPT !.pc = "future"] ELSE CgWaitOrRepost(d)
    ELSE [c EXCEPT !.pc = "final"]

CgLoop ==
    /\ cg.pc = "loop"
    /\ cg' = CgLoopTest(cg)
    /\ UNCHANGED <<store, tasks, clock, stt, img, tts>>

\* client.get(future_links[0]) (lines 150-160)
CgAfterFuture(c, ready) ==
    LET d == [c EXCEPT !.sent = @ \cup {"FUTURE"}] IN
    IF ready
    THEN [d EXCEPT !.result = Result("success", FALSE, FALSE, 5, TRUE), !.pc = "final"]
    ELSE CgWaitOrRepost(d)

CgFuture(ready) ==
    /\ cg.pc = "future"
    /\ cg' = CgAfterFuture(cg, ready)
    /\ UNCHANGED <<store, tasks, clock, stt, img, tts>>

\* the original request posted again (lines 165-176)
CgAfterRepost(c, a) ==
    LET d == [c EXCEPT !.sent = @ \cup {"POST"}, !.n_post = @ + 1] IN
    CASE a.net \in {"timeout", "dns"} -> CgReturn(d, CgOnRequestError(a.net))
      [] a.net = "not_json" -> CgReturn(d, CgOnException)
      [] a.net = "status" -> CgReturn(d, CgOnHTTPStatusError(a.status))
      [] a.net = "json" ->
            [d EXCEPT !.result = a.result, !.poll_count = @ + 1, !.pc = "loop"]

CgRepost(a) ==
    /\ cg.pc = "repost"
    /\ cg' = CgAfterRepost(cg, a)
    /\ UNCHANGED <<store, tasks, clock, stt, img, tts>>

\* the poll of fetch_result with a 404 that is not counted
CgAfterFetchUncounted(c, a) ==
    LET d == [c EXCEPT !.sent = @ \cup {"FETCH"}] IN
    CASE a.net \in {"timeout", "dns"} -> CgReturn(d, CgOnRequestError(a.net))
      [] a.net = "not_json" -> CgReturn(d, CgOnException)
      [] a.net = "status" /\ a.status = 404 ->
            [d EXCEPT !.sleeps = @ \cup {5}, !.pc = "loop"]
      [] a.net = "status" /\ a.status # 404 -> CgReturn(d, CgOnHTTPStatusError(a.status))
      [] a.net = "json" ->
            [d EXCEPT !.result = a.result, !.poll_count = @ + 1, !.pc = "loop"]

\* the poll of fetch_result (lines 184-201)
CgAfterFetch(c, a) ==
    LET d == [c EXCEPT !.sent = @ \cup {"FETCH"}] IN
    CASE a.net \in {"timeout", "dns"} -> CgReturn(d, CgOnRequestError(a.net))
      [] a.net = "not_json" -> CgReturn(d, CgOnException)
      [] a.net = "status" /\ a.status = 404 ->
            [d EXCEPT !.sleeps = @ \cup {5}, !.poll_count = @ + 1, !.pc = "loop"]
      [] a.net = "status" /\ a.status # 404 -> CgReturn(d, CgOnHTTPStatusError(a.status))
      [] a.net = "json" ->
            [d EXCEPT !.result = a.result, !.poll_count = @ + 1, !.pc = "loop"]

CgFetch(a) ==
    /\ cg.pc = "fetch"
    /\ cg' = CgAfterFetch(cg, a)
    /\ UNCHANGED <<store, tasks, clock, stt, img, tts>>

\* the checks of the final status with one message for every status that
\* is not success
CgFinalStatusOneMessage(c) ==
    CASE c.result.status # "success" -> CgReturn(c, Err(500, "ModelLab API error: "))
      [] c.result.status = "success" /\ ~c.result.output ->
            CgReturn(c, Err(500, "ModelLab API returned success but no image URLs"))
      [] c.result.status = "success" /\ c.result.output -> [c EXCEPT !.pc = "download"]

\* the checks of the final status (lines 203-224)
CgFinalStatus(c) ==
    CASE c.result.status = "error" -> CgReturn(c, Err(500, "ModelLab API error: "))
      [] c.result.status = "failed" ->
            CgReturn(c, Err(500, "ModelLab API generation failed: "))
      [] c.result.status \notin {"error", "failed", "success"} ->
            CgReturn(c, Err(500, "Unexpected status from ModelLab API: " \o c.result.status))
      [] c.result.status = "success" /\ ~c.result.output ->
            CgReturn(c, Err(500, "ModelLab API returned success but no image URLs"))
      [] c.result.status = "success" /\ c.result.output -> [c EXCEPT !.pc = "download"]

CgFinal ==
    /\ cg.pc = "final"
    /\ cg' = CgFinalStatus(cg)
    /\ UNCHANGED <<store, tasks, clock, stt, img, tts>>

\* the download and the file written (lines 226-248); size is
\* len(image_bytes), -1 a download that failed
DownloadSizes == {-1, 0, 99, 100, 2048}

CgAfterDownload(c, size) ==
    LET d == [c EXCEPT !.sent = @ \cup {"DOWNLOAD"}, !.size = size] IN
    CASE size < 0 ->
            CgReturn(d, Err(500, "Failed to download generated image from ModelLab: "))
      [] size >= 0 /\ size < MinImageBytes ->
            CgReturn(d, Err(500, "Downloaded image is too small or invalid"))
      [] size >= MinImageBytes ->
            CgReturn([d EXCEPT !.stored = @ + 1], Ok("/storage/images/<uuid>.png"))

CgDownload(size) ==
    /\ cg.pc = "download"
    /\ cg' = CgAfterDownload(cg, size)
    /\ UNCHANGED <<store, tasks, clock, stt, img, tts>>

NextCyclegan ==
    \/ \E url \in ImageUrls, key \in BOOLEAN : CgReceive(url, key)
    \/ \E ok \in BOOLEAN : CgHead(ok)
    \/ \E ok \in BOOLEAN : CgGet(ok)
    \/ \E a \in ProviderAnswers : CgPost(a)
    \/ CgLoop
    \/ \E ready \in BOOLEAN : CgFuture(ready)
    \/ \E a \in ProviderAnswers : CgRepost(a)
    \/ \E a \in ProviderAnswers : CgFetch(a)
    \/ CgFinal
    \/ \E size \in DownloadSizes : CgDownload(size)

----------------------------------------------------------------------------
(* workers/stt/main.py: generate, one invocation after another.             *)
(* stt.cause says which upstream request made the invocation fail and       *)
(* stt.upstream the HTTP status it answered (0: no answer); stt.msg_kind is *)
(* the fixed text the failure's detail starts with; stt.seen collects       *)
(* [cause, upstream, status, msg_kind] of the failures returned so far.     *)

UnreachableAudio == "http://unreachable/a.wav"
AudioUrls == {"http://host/a.wav", UnreachableAudio}

AudioReachable(url) == url # UnreachableAudio

Transcription == "a red bicycle"

UpstreamErrorStatuses == {401, 404, 503}

\* e.response.text of an upstream answer with an error status
UpstreamBody == "<body of the upstream answer>"

\* what client.get(audio_url) can meet
AudioAnswers ==
    {[net |-> "ok", status |-> 200]}
    \cup {[net |-> "status", status |-> st] : st \in UpstreamErrorStatuses}
    \cup {[net |-> "request_error", status |-> 0]}

\* what a POST to the transcription provider can meet; json is the kind of
\* JSON value in a 200 answer
SttProviderAnswers ==
    {[net |-> "json", status |-> 200, json |-> j] :
        j \in {"dict_text", "dict_no_text", "str", "str_empty", "list"}}
    \cup {[net |-> "status", status |-> st, json |-> "none"] : st \in UpstreamErrorStatuses}
    \cup {[net |-> n, status |-> 0, json |-> "none"] : n \in {"request_error", "not_json"}}

SttIdle ==
    [pc |-> "idle", audio_url |-> None, sent |-> <<>>, sleeps |-> {},
     cause |-> "none", upstream |-> 0, msg_kind |-> "none", response |-> Pending,
     seen |-> {}]

SttHFError == "Hugging Face API error: "
SttFailed == "Speech-to-text failed: "

\* except httpx.HTTPStatusError (lines 101-103)
SttOnHTTPStatusError(c, cause, status) ==
    [c EXCEPT !.pc = "done", !.cause = cause, !.upstream = status,
              !.msg_kind = SttHFError,
              !.response = Err(status, SttHFError \o UpstreamBody)]

\* except Exception (lines 104-105)
SttOnException(c, cause, text) ==
    [c EXCEPT !.pc = "done", !.cause = cause, !.upstream = 0,
              !.msg_kind = SttFailed,
              !.response = Err(500, SttFailed \o text)]

SttFailureSeen(c) ==
    [cause |-> c.cause, upstream |-> c.upstream, status |-> c.response.status,
     msg_kind |-> c.msg_kind]

\* the failures returned so far, with the one of c if c ended in one
SttRecord(c, seen) ==
    [c EXCEPT !.seen = IF c.pc = "done" /\ c.response.kind = "http_error"
                       THEN seen \cup {SttFailureSeen(c)}
                       ELSE seen]

\* the handler is entered (lines 35-47)
SttEnter(old, url, key) ==
    LET c == [old EXCEPT !.pc = "audio", !.audio_url = url, !.sent = <<>>,
                         !.sleeps = {}, !.cause = "none", !.upstream = 0,
                         !.msg_kind = "none", !.response = Pending] IN
    IF ~key
    THEN [c EXCEPT !.pc = "done", !.cause = "config",
                   !.msg_kind = "HUGGINGFACE_API_KEY not configured",
                   !.response = Err(500, "HUGGINGFACE_API_KEY not configured")]
    ELSE c

SttReceive(url, key) ==
    /\ stt.pc \in {"idle", "done"}
    /\ stt' = SttRecord(SttEnter(stt, url, key), stt.seen)
    /\ UNCHANGED <<store, tasks, clock, cg, img, tts>>

\* the download of the audio (lines 52-54)
SttAfterAudio(c, a) ==
    LET d == [c EXCEPT !.sent = Append(@, "GET")] IN
    CASE a.net = "ok" -> [d EXCEPT !.pc = "post"]
      [] a.net = "status" -> SttOnHTTPStatusError(d, "audio_fetch", a.status)
      [] a.net = "request_error" -> SttOnException(d, "audio_fetch", "ConnectError")

SttAudio(a) ==
    /\ stt.pc = "audio"
    /\ a.net = "ok" => AudioReachable(stt.audio_url)
    /\ stt' = SttRecord(SttAfterAudio(stt, a), stt.seen)
    /\ UNCHANGED <<store, tasks, clock, cg, img, tts>>

\* response.raise_for_status() and the text taken from the JSON (lines 85-99)
SttParse(c, a) ==
    CASE a.net = "request_error" -> SttOnException(c, "provider", "ReadTimeout")
      [] a.net = "not_json" -> SttOnException(c, "parse", "JSONDecodeError")
      [] a.net = "status" -> SttOnHTTPStatusError(c, "provider", a.status)
      [] a.net = "json" /\ a.json = "list" -> SttOnException(c, "parse", "")
      [] a.net = "json" /\ a.json \in {"dict_no_text", "str_empty"} ->
            SttOnException(c, "parse", "")
      [] a.net = "json" /\ a.json \in {"dict_text", "str"} ->
            [c EXCEPT !.pc = "done", !.response = Ok(Transcription)]

\* the first POST to the provider (lines 65-83)
SttAfterPost(c, a) ==
    LET d == [c EXCEPT !.sent = Append(@, "POST")] IN
    IF a.net = "status" /\ a.status = 503
    THEN [d EXCEPT !.sleeps = @ \cup {10}, !.pc = "retry"]
    ELSE SttParse(d, a)

SttPost(a) ==
    /\ stt.pc = "post"
    /\ stt' = SttRecord(SttAfterPost(stt, a), stt.seen)
    /\ UNCHANGED <<store, tasks, clock, cg, img, tts>>

\* the second POST, after a 503 (lines 77-83)
SttAfterRetry(c, a) == SttParse([c EXCEPT !.sent = Append(@, "POST")], a)

SttRetry(a) ==
    /\ stt.pc = "retry"
    /\ stt' = SttRecord(SttAfterRetry(stt, a), stt.seen)
    /\ UNCHANGED <<store, tasks, clock, cg, img, tts>>

NextStt ==
    \/ \E url \in AudioUrls, key \in BOOLEAN : SttReceive(url, key)
    \/ \E a \in AudioAnswers : SttAudio(a)
    \/ \E a \in SttProviderAnswers : SttPost(a)
    \/ \E a \in SttProviderAnswers : SttRetry(a)

----------------------------------------------------------------------------
(* workers/image/main.py: generate, one invocation after another.           *)
(* img.candidate is the index in models_to_try of the model being tried,    *)
(* img.posts the requests sent to it, img.first the status of its first     *)
(* answer (0: none), img.size the length of its latest answer.  img.tried  *)
(* holds, for each candidate left behind or returned from, what was         *)
(* observed of it: [model, posts, first, kind, status, size, advanced],     *)
(* kind one of "gone", "status", "small", "timeout",     *)
(* "connect_error", "estimate", "ok".                                       *)

HF_API_URL == "https://router.huggingface.co/hf-inference/models/stabilityai/stable-diffusion-xl-base-1.0"

FALLBACK_MODELS ==
    <<"https://router.huggingface.co/hf-inference/models/runwayml/stable-diffusion-v1-5",
      "https://router.huggingface.co/hf-inference/models/stabilityai/stable-diffusion-2-1">>

models_to_try == <<HF_API_URL>> \o FALLBACK_MODELS

ImgMinBytes == 100

\* len(image_bytes) of a 200 answer
ImageSizes == {0, 99, 100, 2048}

ImageErrorStatuses == {400, 401, 404, 410, 429, 500, 503}

\* "estimated_time" of a 503 answer: absent (or the body is no JSON object),
\* a number, or a value min() cannot compare with 30
Estimates ==
    {[kind |-> "absent", value |-> 20],
     [kind |-> "number", value |-> 5],
     [kind |-> "number", value |-> 60],
     [kind |-> "not_number", value |-> 0]}

NoEstimate == [kind |-> "absent", value |-> 20]

\* what a POST to a model can meet
ImageAnswers ==
    {[net |-> "bytes", status |-> 200, size |-> n, est |-> NoEstimate] : n \in ImageSizes}
    \cup {[net |-> "status", status |-> st, size |-> 0, est |-> NoEstimate] :
            st \in ImageErrorStatuses \ {503}}
    \cup {[net |-> "status", status |-> 503, size |-> 0, est |-> e] : e \in Estimates}
    \cup {[net |-> n, status |-> 0, size |-> 0, est |-> NoEstimate] :
            n \in {"timeout", "connect_error"}}

ImgIdle ==
    [pc |-> "idle", candidate |-> 0, posts |-> 0, first |-> 0, size |-> 0,
     last_error |-> None,
     tried |-> <<>>, sleeps |-> {}, stored |-> 0, response |-> Pending]

ImgAllFailed == "Image generation failed with all models. Last error: "

\* what was observed of the candidate being tried
Observed(c, kind, status, advanced) ==
    [model |-> c.candidate, posts |-> c.posts, first |-> c.first, kind |-> kind,
     status |-> status, size |-> c.size, advanced |-> advanced]

\* str(e) of the exception a request or min() raised
ExceptionText(kind) ==
    CASE kind = "timeout" -> ""
      [] kind = "connect_error" -> "All connection attempts failed"
      [] kind = "estimate" ->
            "'<' not supported between instances of 'int' and 'NoneType'"

\* last_error keeping the first error it was given
LastErrorKeptFirst(c, kind, status) ==
    IF c.last_error # None
    THEN c.last_error
    ELSE CASE kind = "gone" -> "Model unavailable at " \o models_to_try[c.candidate]
           [] kind = "small" -> "Invalid image response"
           [] kind = "status" -> "API error: " \o ToString(status)
           [] kind \in {"timeout", "connect_error", "estimate"} -> ExceptionText(kind)

\* last_error as the branch that leaves a candidate sets it (lines 114, 122,
\* 139, 145)
LastError(c, kind, status) ==
    CASE kind = "gone" -> "Model unavailable at " \o models_to_try[c.candidate]
      [] kind = "small" -> "Invalid image response"
      [] kind = "status" -> "API error: " \o ToString(status)
      [] kind \in {"timeout", "connect_error", "estimate"} -> ExceptionText(kind)

\* continue: the next model, or line 149 when there is none
ImgContinue(c, kind, status) ==
    LET obs == Observed(c, kind, status, TRUE)
        d == [c EXCEPT !.last_error = LastError(c, kind, status),
                       !.tried = Append(@, obs)] IN
    IF c.candidate < Len(models_to_try)
    THEN [d EXCEPT !.candidate = @ + 1, !.posts = 0, !.first = 0, !.size = 0,
                   !.pc = "post"]
    ELSE [d EXCEPT !.pc = "done", !.response = Err(500, ImgAllFailed \o d.last_error)]

\* the answer to the request that counts for the candidate (lines 112-146)
ImgHandle(c, a) ==
    CASE a.net \in {"timeout", "connect_error"} -> ImgContinue(c, a.net, 0)
      [] a.net = "status" /\ a.status \in {410, 404} -> ImgContinue(c, "gone", a.status)
      [] a.net = "status" /\ a.status = 503 -> ImgContinue(c, "status", a.status)
      [] a.net = "status" /\ a.status \notin {410, 404, 503} ->
            [c EXCEPT !.pc = "done",
                      !.last_error = LastError(c, "status", a.status),
                      !.tried = Append(@, Observed(c, "status", a.status, FALSE)),
                      !.response = Err(a.status, "Hugging Face API error: " \o UpstreamBody)]
      [] a.net = "bytes" /\ a.size < ImgMinBytes -> ImgContinue(c, "small", a.status)
      [] a.net = "bytes" /\ a.size >= ImgMinBytes ->
            [c EXCEPT !.pc = "done", !.stored = @ + 1,
                      !.tried = Append(@, Observed(c, "ok", a.status, FALSE)),
                      !.response = Ok(ImageOut)]

\* the handler starting from the first fallback instead of the primary
ImgEnterFallbackFirst(key) ==
    IF ~key
    THEN [ImgIdle EXCEPT !.pc = "done",
                         !.response = Err(500, "HUGGINGFACE_API_KEY not configured")]
    ELSE [ImgIdle EXCEPT !.pc = "post", !.candidate = 2]

\* the handler is entered (lines 57-93)
ImgEnter(key) ==
    IF ~key
    THEN [ImgIdle EXCEPT !.pc = "done",
                         !.response = Err(500, "HUGGINGFACE_API_KEY not configured")]
    ELSE [ImgIdle EXCEPT !.pc = "post", !.candidate = 1]

ImgReceive(key) ==
    /\ img.pc \in {"idle", "done"}
    /\ img' = ImgEnter(key)
    /\ UNCHANGED <<store, tasks, clock, cg, stt, tts>>

\* the handling of a 503 sleeping for as long as the provider says
ImgAfterPostUnclamped(c, a) ==
    LET d == [c EXCEPT !.posts = @ + 1, !.first = a.status, !.size = a.size] IN
    IF a.net = "status" /\ a.status = 503
    THEN IF a.est.kind = "not_number"
         THEN ImgContinue(d, "estimate", a.status)
         ELSE [d EXCEPT !.sleeps = @ \cup {a.est.value}, !.pc = "retry"]
    ELSE ImgHandle(d, a)

\* client.post(model_url) and the handling of a 503 (lines 98-110)
ImgAfterPost(c, a) ==
    LET d == [c EXCEPT !.posts = @ + 1, !.first = a.status, !.size = a.size] IN
    IF a.net = "status" /\ a.status = 503
    THEN IF a.est.kind = "not_number"
         THEN ImgContinue(d, "estimate", a.status)
         ELSE [d EXCEPT !.sleeps = @ \cup {Min(a.est.value, 30)}, !.pc = "retry"]
    ELSE ImgHandle(d, a)

ImgPost(a) ==
    /\ img.pc = "post"
    /\ img' = ImgAfterPost(img, a)
    /\ UNCHANGED <<store, tasks, clock, cg, stt, tts>>

\* the request sent again after the sleep (line 110)
ImgAfterRetry(c, a) == ImgHandle([c EXCEPT !.posts = @ + 1, !.size = a.size], a)

ImgRetry(a) ==
    /\ img.pc = "retry"
    /\ img' = ImgAfterRetry(img, a)
    /\ UNCHANGED <<store, tasks, clock, cg, stt, tts>>

NextImage ==
    \/ \E key \in BOOLEAN : ImgReceive(key)
    \/ \E a \in ImageAnswers : ImgPost(a)
    \/ \E a \in ImageAnswers : ImgRetry(a)

----------------------------------------------------------------------------
(* workers/tts/main.py: generate, one invocation after another.             *)

MinAudioBytes == 100

AudioSizes == {0, 99, 100, 2048}

\* what the POST to the provider can meet
TtsAnswers ==
    {[net |-> "bytes", status |-> 200, size |-> n] : n \in AudioSizes}
    \cup {[net |-> "status", status |-> st, size |-> 0] : st \in {401, 429, 500}}
    \cup {[net |-> n, status |-> 0, size |-> 0] : n \in {"timeout", "connect_error"}}

TtsIdle ==
    [pc |-> "idle", sent |-> 0, status |-> 0, size |-> 0, stored |-> 0,
     response |-> Pending]

TtsFailed == "Text-to-speech failed: "

\* the handler is entered (lines 53-86)
TtsEnter(key) ==
    IF ~key
    THEN [TtsIdle EXCEPT !.pc = "done",
                         !.response = Err(500, "ELEVENLABS_API_KEY not configured")]
    ELSE [TtsIdle EXCEPT !.pc = "post"]

TtsReceive(key) ==
    /\ tts.pc \in {"idle", "done"}
    /\ tts' = TtsEnter(key)
    /\ UNCHANGED <<store, tasks, clock, cg, stt, img>>

\* client.post and what follows it, the length of the audio not looked at
TtsAfterPostAnyLength(c, a) ==
    LET d == [c EXCEPT !.pc = "done", !.sent = @ + 1, !.status = a.status,
                       !.size = a.size] IN
    CASE a.net \in {"timeout", "connect_error"} ->
            [d EXCEPT !.response = Err(500, TtsFailed \o ExceptionText(a.net))]
      [] a.net = "status" ->
            [d EXCEPT !.response = Err(a.status, "ElevenLabs API error: " \o UpstreamBody)]
      [] a.net = "bytes" ->
            [d EXCEPT !.stored = @ + 1, !.response = Ok(AudioOut)]

\* client.post and what follows it (lines 88-121)
TtsAfterPost(c, a) ==
    LET d == [c EXCEPT !.pc = "done", !.sent = @ + 1, !.status = a.status,
                       !.size = a.size] IN
    CASE a.net \in {"timeout", "connect_error"} ->
            [d EXCEPT !.response = Err(500, TtsFailed \o ExceptionText(a.net))]
      [] a.net = "status" ->
            [d EXCEPT !.response = Err(a.status, "ElevenLabs API error: " \o UpstreamBody)]
      [] a.net = "bytes" /\ a.size < MinAudioBytes ->
            [d EXCEPT !.response =
                Err(500, TtsFailed \o "500: Invalid audio response from ElevenLabs")]
      [] a.net = "bytes" /\ a.size >= MinAudioBytes ->
            [d EXCEPT !.stored = @ + 1, !.response = Ok(AudioOut)]

TtsPost(a) ==
    /\ tts.pc = "post"
    /\ tts' = TtsAfterPost(tts, a)
    /\ UNCHANGED <<store, tasks, clock, cg, stt, img>>

NextTts ==
    \/ \E key \in BOOLEAN : TtsReceive(key)
    \/ \E a \in TtsAnswers : TtsPost(a)

----------------------------------------------------------------------------
(* The answers of the two handlers above that the gateway model meets: the  *)
(* success, one failure, and for an input that cannot be fetched the        *)
(* failure of the precheck.  _call_worker reads the status of a failure and *)
(* nothing else of it.                                                      *)

CycleganResponses(url) ==
    IF Reachable(url)
    THEN {Ok("/storage/images/<uuid>.png"), Err(429, "ModelLab API rate limit exceeded")}
    ELSE {CgPrecheckFailure}

SttResponses(url) ==
    IF AudioReachable(url)
    THEN {Ok(Transcription), Err(404, SttHFError \o UpstreamBody)}
    ELSE {Err(500, SttFailed \o "ConnectError")}

----------------------------------------------------------------------------
(* services/pipeline_executor.py *)

llm_worker_url == "http://llm-worker:8001"
image_worker_url == "http://image-worker:8002"
stt_worker_url == "http://stt-worker:8003"
tts_worker_url == "http://tts-worker:8004"
cyclegan_worker_url == "http://cyclegan-worker:8005"

\* str(e) of the httpx.HTTPStatusError of response.raise_for_status(): it is
\* made of the status and the URL, never of the body
HttpxStatusMessage(status, url) ==
    (IF status < 500 THEN "Client error '" ELSE "Server error '")
        \o ToString(status) \o "' for url '" \o url \o "/generate'"

\* _call_worker: what the await ends in, an exception (its str) or the dict
\* of the JSON body, [has: the key the caller reads is present, value]
call_worker(outcome, url) ==
    CASE outcome.kind = "timeout" ->
            [raised |-> TRUE, message |-> "", has |-> FALSE, value |-> None]
      [] outcome.kind = "connect_error" ->
            [raised |-> TRUE, message |-> "All connection attempts failed",
             has |-> FALSE, value |-> None]
      [] outcome.kind = "http_error" ->
            [raised |-> TRUE, message |-> HttpxStatusMessage(outcome.status, url),
             has |-> FALSE, value |-> None]
      [] outcome.kind = "bad_body" ->
            [raised |-> TRUE, message |-> "Expecting value: line 1 column 1 (char 0)",
             has |-> FALSE, value |-> None]
      [] outcome.kind = "ok_missing" ->
            [raised |-> FALSE, message |-> None, has |-> FALSE, value |-> None]
      [] outcome.kind = "ok" ->
            [raised |-> FALSE, message |-> None, has |-> TRUE, value |-> outcome.body]

\* dict.get(key, default)
DictGet(r, default) == IF r.has THEN r.value ELSE default

\* the Job object of a task that has not loaded one
NoJob ==
    Job(0, None, [text |-> None, image_url |-> None, audio_url |-> None],
        [style |-> None], NoTime)

\* One call of execute_job_async: pc is where it stands ("scheduled", an
\* await of _call_worker, "returned" or "raised" out of the pipeline method,
\* "done"), job the Job object it holds, loaded that object as get_job
\* returned it, prompt and transcribed_text the locals of the pipeline
\* method, calls the requests it has sent to workers with what each met,
\* exc the str of the exception raised, writes the number of times it has
\* called db.update_job.
Task(id) ==
    [pc |-> "scheduled", job_id |-> id, job |-> NoJob, loaded |-> NoJob,
     prompt |-> None, transcribed_text |-> None, calls |-> <<>>, exc |-> None,
     writes |-> 0]

\* the POST of _call_worker is sent and the task awaits the answer
Send(t, worker, input) ==
    [t EXCEPT !.pc = "await",
              !.calls = Append(@, [worker |-> worker, input |-> input,
                                   outcome |-> Pending])]

\* the answer arrives
Receive(t, outcome) == [t EXCEPT !.calls[Len(t.calls)].outcome = outcome]

Return(t) == [t EXCEPT !.pc = "returned"]
Raise(t, message) == [t EXCEPT !.pc = "raised", !.exc = message]

LastCall(t) == t.calls[Len(t.calls)]

\* _text_to_text (lines 63-75)
text_to_text_begin(t) == Send(t, "llm-worker", t.job.inputs.text)

\* _text_to_text sending its request a second time when the first one failed
text_to_text_resume_resend(t, r) ==
    IF r.raised
    THEN IF Len(t.calls) < 2 THEN Send(t, "llm-worker", t.job.inputs.text)
         ELSE Raise(t, r.message)
    ELSE Return([t EXCEPT !.job.outputs.text = DictGet(r, None),
                          !.job.metadata.worker_used = "llm-worker"])

text_to_text_resume(t, r) ==
    IF r.raised THEN Raise(t, r.message)
    ELSE Return([t EXCEPT !.job.outputs.text = DictGet(r, None),
                          !.job.metadata.worker_used = "llm-worker"])

\* the image worker is called with the prompt, which is also written back
\* into the job's inputs
SendImagePromptAsInput(t, prompt) ==
    Send([t EXCEPT !.prompt = prompt, !.job.inputs.text = prompt], "image-worker", prompt)

\* the image worker is called with the prompt (lines 96-103, 166-173)
SendImage(t, prompt) == Send([t EXCEPT !.prompt = prompt], "image-worker", prompt)

\* the optional call without its fallback: a failure loses the prompt
EnhancedPromptNoFallback(prompt, r) == IF r.raised THEN None ELSE DictGet(r, None)

\* the prompt after the optional language-model call (lines 83-94, 152-163)
EnhancedPrompt(prompt, r) == IF r.raised THEN prompt ELSE DictGet(r, prompt)

\* _text_to_image (lines 77-106)
text_to_image_begin(t) ==
    LET prompt == t.job.inputs.text IN
    IF Truthy(t.job.options.style)
    THEN Send([t EXCEPT !.prompt = prompt], "llm-worker",
              "Rewrite this prompt in a " \o t.job.options.style \o " style: " \o prompt)
    ELSE SendImage(t, prompt)

\* _text_to_image dropping the rewrite it asked for
text_to_image_resume_unrewritten(t, r) ==
    IF LastCall(t).worker = "llm-worker"
    THEN SendImage(t, t.prompt)
    ELSE IF r.raised THEN Raise(t, r.message)
    ELSE Return([t EXCEPT !.job.outputs.image_url = DictGet(r, None),
                          !.job.metadata.worker_used = "image-worker"])

text_to_image_resume(t, r) ==
    IF LastCall(t).worker = "llm-worker"
    THEN SendImage(t, EnhancedPrompt(t.prompt, r))
    ELSE IF r.raised THEN Raise(t, r.message)
    ELSE Return([t EXCEPT !.job.outputs.image_url = DictGet(r, None),
                          !.job.metadata.worker_used = "image-worker"])

\* _text_to_speech (lines 108-120)
text_to_speech_begin(t) == Send(t, "tts-worker", t.job.inputs.text)

text_to_speech_resume(t, r) ==
    IF r.raised THEN Raise(t, r.message)
    ELSE Return([t EXCEPT !.job.outputs.audio_url = DictGet(r, None),
                          !.job.metadata.worker_used = "tts-worker"])

\* _speech_to_text (lines 122-134)
speech_to_text_begin(t) == Send(t, "stt-worker", t.job.inputs.audio_url)

speech_to_text_resume(t, r) ==
    IF r.raised THEN Raise(t, r.message)
    ELSE Return([t EXCEPT !.job.outputs.text = DictGet(r, None),
                          !.job.metadata.worker_used = "stt-worker"])

\* _speech_to_image (lines 136-178)
speech_to_image_begin(t) == Send(t, "stt-worker", t.job.inputs.audio_url)

\* _speech_to_image recording the transcription as soon as it has it
speech_to_image_after_stt_recorded(t, r) ==
    IF r.raised THEN Raise(t, r.message)
    ELSE LET transcribed_text == DictGet(r, "")
             u == [t EXCEPT !.transcribed_text = transcribed_text,
                            !.prompt = transcribed_text,
                            !.job.outputs.text = transcribed_text] IN
         IF Truthy(transcribed_text)
         THEN Send(u, "llm-worker",
                   "Transform this transcription into a clear image generation prompt: "
                       \o transcribed_text)
         ELSE SendImage(u, transcribed_text)

\* _speech_to_image sending the cleanup request and the image request
\* together, without awaiting the first
speech_to_image_after_stt_gathered(t, r) ==
    IF r.raised THEN Raise(t, r.message)
    ELSE LET transcribed_text == DictGet(r, "")
             u == [t EXCEPT !.transcribed_text = transcribed_text,
                            !.prompt = transcribed_text] IN
         IF Truthy(transcribed_text)
         THEN SendImage(Send(u, "llm-worker",
                             "Transform this transcription into a clear image generation prompt: "
                                 \o transcribed_text),
                        transcribed_text)
         ELSE SendImage(u, transcribed_text)

speech_to_image_after_stt(t, r) ==
    IF r.raised THEN Raise(t, r.message)
    ELSE LET transcribed_text == DictGet(r, "")
             u == [t EXCEPT !.transcribed_text = transcribed_text,
                            !.prompt = transcribed_text] IN
         IF Truthy(transcribed_text)
         THEN Send(u, "llm-worker",
                   "Transform this transcription into a clear image generation prompt: "
                       \o transcribed_text)
         ELSE SendImage(u, transcribed_text)

\* _speech_to_image recording what the first two steps produced before it
\* looks at the image worker's answer
speech_to_image_after_image_eager(t, r) ==
    LET u == [t EXCEPT !.job.outputs.text = t.transcribed_text,
                       !.job.metadata.worker_used = "stt-worker,llm-worker"] IN
    IF r.raised THEN Raise(u, r.message)
    ELSE Return([u EXCEPT !.job.outputs.image_url = DictGet(r, None),
                          !.job.metadata.worker_used = "stt-worker,llm-worker,image-worker"])

speech_to_image_after_image(t, r) ==
    IF r.raised THEN Raise(t, r.message)
    ELSE Return([t EXCEPT !.job.outputs.text = t.transcribed_text,
                          !.job.outputs.image_url = DictGet(r, None),
                          !.job.metadata.worker_used = "stt-worker,llm-worker,image-worker"])

speech_to_image_resume(t, r) ==
    CASE LastCall(t).worker = "stt-worker" -> speech_to_image_after_stt(t, r)
      [] LastCall(t).worker = "llm-worker" -> SendImage(t, EnhancedPrompt(t.prompt, r))
      [] LastCall(t).worker = "image-worker" -> speech_to_image_after_image(t, r)

\* _image_to_image (lines 180-192)
image_to_image_begin(t) == Send(t, "cyclegan-worker", t.job.inputs.image_url)

image_to_image_resume(t, r) ==
    IF r.raised THEN Raise(t, r.message)
    ELSE Return([t EXCEPT !.job.outputs.image_url = DictGet(r, None),
                          !.job.metadata.worker_used = "cyclegan-worker"])

\* execute sending a pipeline it does not know to the language-model worker
execute_begin_default(t, now) ==
    LET u == [t EXCEPT !.job.status = RUNNING,
                       !.job.metadata.started_at = IF @ = NoTime THEN now ELSE @] IN
    CASE u.job.pipeline = "text_to_image" -> text_to_image_begin(u)
      [] u.job.pipeline = "text_to_speech" -> text_to_speech_begin(u)
      [] u.job.pipeline = "speech_to_text" -> speech_to_text_begin(u)
      [] u.job.pipeline = "speech_to_image" -> speech_to_image_begin(u)
      [] u.job.pipeline = "image_to_image" -> image_to_image_begin(u)
      [] OTHER -> text_to_text_begin(u)

\* execute recording the start timestamp on every entry
execute_begin_restamped(t, now) ==
    LET u == [t EXCEPT !.job.status = RUNNING,
                       !.job.metadata.started_at = now] IN
    CASE u.job.pipeline = "text_to_text" -> text_to_text_begin(u)
      [] u.job.pipeline = "text_to_image" -> text_to_image_begin(u)
      [] u.job.pipeline = "text_to_speech" -> text_to_speech_begin(u)
      [] u.job.pipeline = "speech_to_text" -> speech_to_text_begin(u)
      [] u.job.pipeline = "speech_to_image" -> speech_to_image_begin(u)
      [] u.job.pipeline = "image_to_image" -> image_to_image_begin(u)
      [] OTHER -> Raise(u, "Unsupported pipeline: " \o u.job.pipeline)

\* execute, lines 23-42: the status, the start timestamp and the dispatch on
\* the pipeline type, up to the first await
execute_begin(t, now) ==
    LET u == [t EXCEPT !.job.status = RUNNING,
                       !.job.metadata.started_at = IF @ = NoTime THEN now ELSE @] IN
    CASE u.job.pipeline = "text_to_text" -> text_to_text_begin(u)
      [] u.job.pipeline = "text_to_image" -> text_to_image_begin(u)
      [] u.job.pipeline = "text_to_speech" -> text_to_speech_begin(u)
      [] u.job.pipeline = "speech_to_text" -> speech_to_text_begin(u)
      [] u.job.pipeline = "speech_to_image" -> speech_to_image_begin(u)
      [] u.job.pipeline = "image_to_image" -> image_to_image_begin(u)
      [] OTHER -> Raise(u, "Unsupported pipeline: " \o u.job.pipeline)

\* the pipeline method goes on after an await
execute_resume(t, r) ==
    CASE t.job.pipeline = "text_to_text" -> text_to_text_resume(t, r)
      [] t.job.pipeline = "text_to_image" -> text_to_image_resume(t, r)
      [] t.job.pipeline = "text_to_speech" -> text_to_speech_resume(t, r)
      [] t.job.pipeline = "speech_to_text" -> speech_to_text_resume(t, r)
      [] t.job.pipeline = "speech_to_image" -> speech_to_image_resume(t, r)
      [] t.job.pipeline = "image_to_image" -> image_to_image_resume(t, r)

\* execute without its except clause: the exception leaves the job as it is
execute_end_no_except(t, now) ==
    CASE t.pc = "returned" ->
            [t EXCEPT !.pc = "done", !.job.status = COMPLETED,
                      !.job.metadata.completed_at = now]
      [] t.pc = "raised" -> [t EXCEPT !.pc = "done"]
      [] OTHER -> t

\* execute recording the completion time of a success only
execute_end_failure_untimed(t, now) ==
    CASE t.pc = "returned" ->
            [t EXCEPT !.pc = "done", !.job.status = COMPLETED,
                      !.job.metadata.completed_at = now]
      [] t.pc = "raised" ->
            [t EXCEPT !.pc = "done", !.job.status = FAILED,
                      !.job.metadata.error_message = t.exc]
      [] OTHER -> t

\* execute, lines 44-54: the pipeline method returned or raised
execute_end(t, now) ==
    CASE t.pc = "returned" ->
            [t EXCEPT !.pc = "done", !.job.status = COMPLETED,
                      !.job.metadata.completed_at = now]
      [] t.pc = "raised" ->
            [t EXCEPT !.pc = "done", !.job.status = FAILED,
                      !.job.metadata.error_message = t.exc,
                      !.job.metadata.completed_at = now]
      [] OTHER -> t

WorkerUrl(worker) ==
    CASE worker = "llm-worker" -> llm_worker_url
      [] worker = "image-worker" -> image_worker_url
      [] worker = "stt-worker" -> stt_worker_url
      [] worker = "tts-worker" -> tts_worker_url
      [] worker = "cyclegan-worker" -> cyclegan_worker_url

\* what the call a task awaits can meet
Outcomes(call) ==
    TransportFailures \cup MalformedBodies \cup
    (CASE call.worker = "llm-worker" -> LlmResponses
       [] call.worker = "image-worker" -> ImageResponses
       [] call.worker = "tts-worker" -> TtsResponses
       [] call.worker = "stt-worker" -> SttResponses(call.input)
       [] call.worker = "cyclegan-worker" -> CycleganResponses(call.input))

----------------------------------------------------------------------------
(* main.py *)

Inputs(text, image_url, audio_url) ==
    [text |-> text, image_url |-> image_url, audio_url |-> audio_url]

JobCreate(pipeline, inputs, style) ==
    [pipeline |-> pipeline, inputs |-> inputs, options |-> [style |-> style]]

\* the bodies of POST /jobs the model sends: each pipeline with the input
\* it needs, and three that lack it
Requests ==
    {JobCreate(p, Inputs("a cat", None, None), None) :
        p \in {"text_to_text", "text_to_image", "text_to_speech"}}
    \cup {JobCreate("text_to_image", Inputs("a cat", None, None), "cinematic")}
    \cup {JobCreate(p, Inputs(None, None, a), None) :
            p \in {"speech_to_text", "speech_to_image"}, a \in {"http://host/a.wav"}}
    \cup {JobCreate("image_to_image", Inputs(None, u, None), None) : u \in ImageUrls}
    \cup {JobCreate(p, Inputs(None, None, None), None) :
            p \in {"text_to_text", "speech_to_text", "image_to_image"}}

\* create_job, lines 66-77: the input the pipeline needs is there
Validate(req) ==
    /\ req.pipeline \in {"text_to_text", "text_to_image", "text_to_speech"}
          => Truthy(req.inputs.text)
    /\ req.pipeline \in {"speech_to_text", "speech_to_image"}
          => Truthy(req.inputs.audio_url)
    /\ req.pipeline = "image_to_image" => Truthy(req.inputs.image_url)

\* datetime.utcnow() has been read: the next read returns a later time
ClockRead == clock' = clock + 1

\* uuid4(): an identifier no job has had
NewJobId == Cardinality(DOMAIN store) + 1

\* POST /jobs adding the background task twice
CreateJobScheduledTwice(req) ==
    /\ Validate(req)
    /\ Cardinality(DOMAIN store) < NJobs
    /\ LET job == Job(NewJobId, req.pipeline, req.inputs, req.options, clock) IN
         /\ store' = DbCreateJob(store, job)
         /\ tasks' = tasks \o <<Task(job.job_id), Task(job.job_id)>>
    /\ ClockRead
    /\ UNCHANGED <<cg, stt, img, tts>>

\* POST /jobs (lines 59-92)
CreateJob(req) ==
    /\ Validate(req)
    /\ Cardinality(DOMAIN store) < NJobs
    /\ LET job == Job(NewJobId, req.pipeline, req.inputs, req.options, clock) IN
         /\ store' = DbCreateJob(store, job)
         /\ tasks' = Append(tasks, Task(job.job_id))
    /\ ClockRead
    /\ UNCHANGED <<cg, stt, img, tts>>

\* execute_job_async storing the job it holds wherever execute stands
PersistAtEveryStep(db, t) == IF t.job # NoJob THEN DbUpdateJob(db, t.job) ELSE db

\* the task has left execute: db.update_job(job) (lines 102-105)
Persist(db, t) == IF t.pc = "done" THEN DbUpdateJob(db, t.job) ELSE db

\* execute_job_async writing the job back whenever execute stands at an await
\* as well as when it has returned
AfterExecuteEveryAwait(t, db) ==
    [task |-> IF t.job_id \in DOMAIN db THEN [t EXCEPT !.writes = @ + 1] ELSE t,
     db   |-> DbUpdateJob(db, t.job)]

\* execute_job_async, lines 98-105: db.update_job(job) once execute has
\* returned, and no call of it for a job get_job did not find
AfterExecute(t, db) ==
    [task |-> IF t.pc = "done" /\ t.job_id \in DOMAIN db
              THEN [t EXCEPT !.writes = @ + 1]
              ELSE t,
     db   |-> Persist(db, t)]

\* execute_job_async starts: get_job, then execute up to its first await
\* (lines 95-102)
execute_job_async_begin(t, db, now) ==
    IF t.job_id \notin DOMAIN db
    THEN [t EXCEPT !.pc = "done"]
    ELSE LET job == DbGetJob(db, t.job_id) IN
         execute_end(execute_begin([t EXCEPT !.job = job, !.loaded = job], now), now)

Begin(i) ==
    /\ tasks[i].pc = "scheduled"
    /\ LET t == execute_job_async_begin(tasks[i], store, clock)
           after == AfterExecute(t, store) IN
         /\ tasks' = [tasks EXCEPT ![i] = after.task]
         /\ store' = after.db
    /\ ClockRead
    /\ UNCHANGED <<cg, stt, img, tts>>

\* the awaited _call_worker ends and execute goes on, to the next await or
\* to its end and db.update_job
execute_job_async_resume(t, outcome, now) ==
    execute_end(execute_resume(Receive(t, outcome),
                               call_worker(outcome, WorkerUrl(LastCall(t).worker))),
                now)

Resume(i, worker, outcome) ==
    /\ tasks[i].pc = "await"
    /\ LastCall(tasks[i]).worker = worker
    /\ outcome \in Outcomes(LastCall(tasks[i]))
    /\ LET t == execute_job_async_resume(tasks[i], outcome, clock)
           after == AfterExecute(t, store) IN
         /\ tasks' = [tasks EXCEPT ![i] = after.task]
         /\ store' = after.db
         /\ IF t.pc = "done" THEN ClockRead ELSE clock' = clock
    /\ UNCHANGED <<cg, stt, img, tts>>

AllOutcomes ==
    TransportFailures \cup MalformedBodies \cup LlmResponses \cup ImageResponses
    \cup TtsResponses
    \cup UNION {SttResponses(u) : u \in AudioUrls}
    \cup UNION {CycleganResponses(u) : u \in ImageUrls}

\* execute_job_async is called once more for a job that exists
Retrigger(id) ==
    /\ Len(tasks) < MaxTasks
    /\ tasks' = Append(tasks, Task(id))
    /\ UNCHANGED <<store, clock, cg, stt, img, tts>>

----------------------------------------------------------------------------

Init ==
    /\ store = <<>>
    /\ tasks = <<>>
    /\ clock = 1
    /\ cg = CgIdle
    /\ stt = SttIdle
    /\ img = ImgIdle
    /\ tts = TtsIdle

Next ==
    \/ \E req \in Requests : CreateJob(req)
    \/ \E i \in DOMAIN tasks : Begin(i)
    \/ \E i \in DOMAIN tasks, o \in AllOutcomes : Resume(i, "llm-worker", o)
    \/ \E i \in DOMAIN tasks, o \in AllOutcomes : Resume(i, "image-worker", o)
    \/ \E i \in DOMAIN tasks, o \in AllOutcomes : Resume(i, "tts-worker", o)
    \/ \E i \in DOMAIN tasks, o \in AllOutcomes : Resume(i, "stt-worker", o)
    \/ \E i \in DOMAIN tasks, o \in AllOutcomes : Resume(i, "cyclegan-worker", o)

Spec == Init /\ [][Next]_vars

NextRetrigger ==
    \/ \E req \in Requests : CreateJob(req)
    \/ \E id \in DOMAIN store : Retrigger(id)
    \/ \E i \in DOMAIN tasks : Begin(i)
    \/ \E i \in DOMAIN tasks, o \in AllOutcomes : Resume(i, "llm-worker", o)
    \/ \E i \in DOMAIN tasks, o \in AllOutcomes : Resume(i, "image-worker", o)
    \/ \E i \in DOMAIN tasks, o \in AllOutcomes : Resume(i, "tts-worker", o)
    \/ \E i \in DOMAIN tasks, o \in AllOutcomes : Resume(i, "stt-worker", o)
    \/ \E i \in DOMAIN tasks, o \in AllOutcomes : Resume(i, "cyclegan-worker", o)

SpecRetrigger == Init /\ [][NextRetrigger]_vars

\* the bodies of POST /jobs sent when jobs run side by side
ConcurrentRequests == {JobCreate("text_to_text", Inputs("a cat", None, None), None)}

\* POST /jobs (lines 59-92), for up to NConcurrent jobs
CreateJobConcurrently(req) ==
    /\ Validate(req)
    /\ Cardinality(DOMAIN store) < NConcurrent
    /\ LET job == Job(NewJobId, req.pipeline, req.inputs, req.options, clock) IN
         /\ store' = DbCreateJob(store, job)
         /\ tasks' = Append(tasks, Task(job.job_id))
    /\ ClockRead
    /\ UNCHANGED <<cg, stt, img, tts>>

NextConcurrent ==
    \/ \E req \in ConcurrentRequests : CreateJobConcurrently(req)
    \/ \E i \in DOMAIN tasks : Begin(i)
    \/ \E i \in DOMAIN tasks, o \in AllOutcomes : Resume(i, "llm-worker", o)

SpecConcurrent == Init /\ [][NextConcurrent]_vars

\* a pipeline value that is none of PipelineType
UnsupportedPipeline == "video_to_text"

\* the Job objects execute is handed: one for each valid request, and one
\* whose pipeline field was set to a value outside PipelineType
ExecuteJobs ==
    {Job(1, req.pipeline, req.inputs, req.options, clock) :
        req \in {r \in Requests : Validate(r)}}
    \cup {Job(1, UnsupportedPipeline, Inputs("a cat", None, None), [style |-> None], clock)}

\* executor.execute(job) up to its first await; loaded is the object as it
\* was handed in
ExecuteCall(job, now) ==
    execute_end(execute_begin([Task(job.job_id) EXCEPT !.job = job, !.loaded = job],
                              now), now)

\* the first call
Execute(job) ==
    /\ tasks = <<>>
    /\ tasks' = <<ExecuteCall(job, clock)>>
    /\ ClockRead
    /\ UNCHANGED <<store, cg, stt, img, tts>>

\* execute is called again on the Job object the previous call returned; a
\* call reads the clock at most twice, and no call starts once the clock has
\* passed what NExecutions - 1 calls can take
ExecuteAgain ==
    /\ tasks # <<>>
    /\ tasks[1].pc = "done"
    /\ clock <= 2 * (NExecutions - 1) + 1
    /\ tasks' = <<ExecuteCall(tasks[1].job, clock)>>
    /\ ClockRead
    /\ UNCHANGED <<store, cg, stt, img, tts>>

\* the awaited _call_worker ends and execute goes on
ExecuteResume(i, outcome) ==
    /\ tasks[i].pc = "await"
    /\ outcome \in Outcomes(LastCall(tasks[i]))
    /\ LET t == execute_job_async_resume(tasks[i], outcome, clock) IN
         /\ tasks' = [tasks EXCEPT ![i] = t]
         /\ IF t.pc = "done" THEN ClockRead ELSE clock' = clock
    /\ UNCHANGED <<store, cg, stt, img, tts>>

NextExecute ==
    \/ \E job \in ExecuteJobs : Execute(job)
    \/ ExecuteAgain
    \/ \E i \in DOMAIN tasks, o \in AllOutcomes : ExecuteResume(i, o)

SpecExecute == Init /\ [][NextExecute]_vars

SpecCyclegan == Init /\ [][NextCyclegan]_vars

\* the handler, once entered, goes on running
SpecCycleganFair == SpecCyclegan /\ WF_vars(NextCyclegan)

SpecImage == Init /\ [][NextImage]_vars

\* one worker process is followed: a handler is given a request only while
\* the other three have never had one
NextWorkers ==
    \/ NextCyclegan /\ stt.pc = "idle" /\ img.pc = "idle" /\ tts.pc = "idle"
    \/ NextStt /\ cg.pc = "idle" /\ img.pc = "idle" /\ tts.pc = "idle"
    \/ NextImage /\ cg.pc = "idle" /\ stt.pc = "idle" /\ tts.pc = "idle"
    \/ NextTts /\ cg.pc = "idle" /\ stt.pc = "idle" /\ img.pc = "idle"

SpecWorkers == Init /\ [][NextWorkers]_vars

SpecStt == Init /\ [][NextStt]_vars

----------------------------------------------------------------------------
(* Properties *)

Terminal == {COMPLETED, FAILED}

Done(t) == t.pc = "done" /\ t.job_id \in DOMAIN store

Failure(outcome) == outcome.kind \notin {"ok", "pending"}

\* C1: one call of execute returns, after at most three worker calls, with
\* the job's status completed or failed, whatever the pipeline type and
\* whatever each worker call met; until then the status is running.
C1_ExecuteEndsTerminal ==
    \A i \in DOMAIN tasks :
        /\ tasks[i].pc \in {"scheduled", "await", "done"}
        /\ Len(tasks[i].calls) <= 3
        /\ tasks[i].pc = "await" => tasks[i].job.status = RUNNING
        /\ Done(tasks[i]) =>
              /\ tasks[i].job.status \in Terminal
              /\ tasks[i].calls # <<>>
              /\ LastCall(tasks[i]).outcome # Pending

C1_Witness ==
    \E i \in DOMAIN tasks :
        /\ Done(tasks[i]) /\ tasks[i].job.status = FAILED
        /\ tasks[i].job.pipeline = "speech_to_image" /\ Len(tasks[i].calls) = 3
        /\ tasks[i].calls[2].outcome.kind = "connect_error"
        /\ LastCall(tasks[i]).outcome.kind = "bad_body"

\* C2 (the claim as stated): the durable status of a job that is completed
\* or failed never changes, and a task only starts running a job it loaded
\* as queued or running.
C2_StatusMonotonic ==
    [][/\ \A id \in DOMAIN store :
             store[id].status \in Terminal => store'[id].status = store[id].status
       /\ \A i \in DOMAIN tasks :
             (tasks[i].pc = "scheduled" /\ tasks'[i].job.status = RUNNING)
                 => tasks'[i].loaded.status \notin Terminal]_vars

\* C3 (the claim as stated): a task that finds its job completed or failed
\* calls no worker and leaves the job and its row as they were.
C3_ReexecutionIsNoOp ==
    \A i \in DOMAIN tasks :
        (tasks[i].pc # "scheduled" /\ tasks[i].loaded.status \in Terminal)
            => /\ tasks[i].calls = <<>>
               /\ tasks[i].job = tasks[i].loaded

\* the case of C4: the transcription succeeded, the image step failed
C4_Case(t) ==
    /\ Done(t) /\ t.job.pipeline = "speech_to_image"
    /\ t.calls[1].outcome.kind = "ok"
    /\ LastCall(t).worker = "image-worker" /\ Failure(LastCall(t).outcome)
    /\ LastCall(t).outcome.kind # "ok_missing"

UnmodifiedText(t) ==
    IF t.job.pipeline = "text_to_image"
    THEN t.job.inputs.text
    ELSE t.calls[1].outcome.body

\* C5: when the optional language-model call of text_to_image or
\* speech_to_image fails (error status, timeout, connection error, malformed
\* body), the image worker is called next with the unmodified text, and if
\* that call succeeds the job is completed with outputs.image_url set and,
\* for speech_to_image, outputs.text the raw transcription.
C5_OptionalStepFailureIsNotFatal ==
    \A i \in DOMAIN tasks : \A k \in DOMAIN tasks[i].calls :
        LET t == tasks[i] IN
        (/\ t.job.pipeline \in {"text_to_image", "speech_to_image"}
         /\ t.calls[k].worker = "llm-worker"
         /\ Failure(t.calls[k].outcome))
        => /\ Len(t.calls) = k + 1
           /\ t.calls[k + 1].worker = "image-worker"
           /\ t.calls[k + 1].input = UnmodifiedText(t)
           /\ t.calls[k + 1].outcome.kind = "ok" =>
                 /\ Done(t) /\ t.job.status = COMPLETED
                 /\ t.job.outputs.image_url = t.calls[k + 1].outcome.body
                 /\ t.job.outputs.image_url # None
                 /\ t.job.pipeline = "speech_to_image"
                       => t.job.outputs.text = t.calls[1].outcome.body
           /\ (Done(t) /\ t.job.status = FAILED) => Failure(t.calls[k + 1].outcome)

C5_Witness ==
    \E i \in DOMAIN tasks :
        /\ Done(tasks[i]) /\ tasks[i].job.pipeline = "speech_to_image"
        /\ Len(tasks[i].calls) = 3
        /\ tasks[i].calls[2].outcome.kind = "timeout"
        /\ tasks[i].calls[3].outcome.kind = "ok"
        /\ tasks[i].calls[3].input = Transcription
        /\ tasks[i].job.status = COMPLETED
        /\ tasks[i].job.outputs.text = Transcription

\* worker_used names both the language-model worker and the image worker
NamesBothAdapters(worker_used) ==
    worker_used \in {"llm-worker,image-worker", "image-worker,llm-worker"}

\* C6 (the claim as stated): a text_to_image job with a style, whose rewrite
\* call and image call both succeed, is completed with outputs.image_url set
\* and worker_used naming both workers.
C6_BothAdaptersRecorded ==
    \A i \in DOMAIN tasks :
        LET t == tasks[i] IN
        (/\ Done(t) /\ t.job.pipeline = "text_to_image" /\ Truthy(t.job.options.style)
         /\ Len(t.calls) = 2
         /\ t.calls[1].outcome.kind = "ok" /\ t.calls[2].outcome.kind = "ok")
        => /\ t.job.status = COMPLETED
           /\ t.job.outputs.image_url # None
           /\ NamesBothAdapters(t.job.metadata.worker_used)

\* C7 (the claim as stated): when the worker of a mandatory step answers with
\* a failure, error_message is the detail of that answer.
C7_ErrorMessageVerbatim ==
    \A i \in DOMAIN tasks :
        LET t == tasks[i] IN
        (Done(t) /\ t.job.status = FAILED /\ LastCall(t).outcome.kind = "http_error")
            => t.job.metadata.error_message = LastCall(t).outcome.body

\* the only text that says the input cannot be fetched is the detail of the
\* worker's answer
IdentifiesUnreachable(message) == message = CgPrecheckFailure.body

\* C8 (the claim as stated): an image_to_image job whose input cannot be
\* fetched, and whose worker answered so, is failed with an error_message
\* that identifies the input as unreachable.
C8_UnreachableInputReported ==
    \A i \in DOMAIN tasks :
        LET t == tasks[i] IN
        (/\ Done(t) /\ t.job.pipeline = "image_to_image"
         /\ ~Reachable(t.job.inputs.image_url)
         /\ LastCall(t).outcome = CgPrecheckFailure)
        => /\ t.job.status = FAILED
           /\ IdentifiesUnreachable(t.job.metadata.error_message)

\* C9: once HEAD and GET of the input reference have both failed, the
\* invocation has ended in the failure of the precheck: nothing was posted
\* to the provider, polled, downloaded or stored.
C9_NoProviderRequestAfterFailedPrecheck ==
    cg.precheck = "failed" =>
        /\ cg.pc = "done"
        /\ cg.response = CgPrecheckFailure
        /\ cg.sent = {"HEAD", "GET"}
        /\ cg.n_post = 0 /\ cg.poll_count = 0 /\ cg.stored = 0

C9_Witness ==
    /\ cg.precheck = "failed" /\ cg.pc = "done"
    /\ cg.sent = {"HEAD", "GET"} /\ Reachable(cg.image_url)

\* C10 (the claim as stated): a failure returned because the audio could
\* not be fetched differs, in status or in kind of message, from one
\* returned because the provider answered with the same HTTP status.
C10_InputFailureDistinguishable ==
    \A a, b \in stt.seen :
        (a.cause = "audio_fetch" /\ b.cause = "provider"
         /\ a.upstream # 0 /\ a.upstream = b.upstream)
        => <<a.status, a.msg_kind>> # <<b.status, b.msg_kind>>

\* the invocation ended at line 149: every model was tried and left behind
Exhausted(c) ==
    /\ c.pc = "done"
    /\ Len(c.tried) = Len(models_to_try)
    /\ c.tried[Len(c.tried)].advanced

\* the text that says what was observed of a candidate
ErrorOf(obs) ==
    CASE obs.kind = "gone" -> "Model unavailable at " \o models_to_try[obs.model]
      [] obs.kind = "small" -> "Invalid image response"
      [] obs.kind = "status" -> "API error: " \o ToString(obs.status)
      [] obs.kind \in {"timeout", "connect_error", "estimate"} -> ExceptionText(obs.kind)

\* C11: when the image worker has tried every model and given up, the
\* failure it returns is a 500 whose detail ends with the error observed of
\* the last model tried, whatever the earlier models answered.
C11_LastCandidateErrorReturned ==
    Exhausted(img) =>
        /\ \A k \in DOMAIN img.tried : img.tried[k].model = k
        /\ img.response = Err(500, ImgAllFailed \o ErrorOf(img.tried[Len(img.tried)]))

C11_Witness ==
    /\ Exhausted(img)
    /\ img.tried[1].kind = "gone" /\ img.tried[2].kind = "small"
    /\ img.tried[3].kind = "status" /\ img.tried[3].status = 503
    /\ img.response = Err(500, ImgAllFailed \o "API error: 503")

\* C12 (the claim as stated): a model is left for the next one only after it
\* answered 404 or 410.
C12_OnlyGoneAdvances ==
    \A k \in DOMAIN img.tried :
        img.tried[k].advanced => img.tried[k].kind = "gone"

\* the requests of one kind in a sequence of requests sent
Count(seq, kind) == Cardinality({k \in DOMAIN seq : seq[k] = kind})

\* C13 (the claim as stated): a model, or the transcription provider, that
\* answers 503 is sent the request once more after a sleep and never a third
\* time, and a second 503 makes the invocation fail.
C13_RetryOnceThenFail ==
    /\ \A k \in DOMAIN img.tried :
          LET e == img.tried[k] IN
          /\ e.posts <= 2
          /\ e.first = 503 => e.posts = 2
          /\ (e.posts = 2 /\ e.status = 503) => ~e.advanced
    /\ img.pc = "retry" => img.sleeps # {}
    /\ Count(stt.sent, "POST") <= 2
    /\ stt.pc = "retry" => 10 \in stt.sleeps
    /\ (stt.pc = "done" /\ Count(stt.sent, "POST") = 2 /\ stt.upstream = 503)
          => stt.response.kind = "http_error"

\* C14: the polling loop of the image-transform worker is entered at most
\* max_polls times in an invocation, every pass through its body that comes
\* back to the loop test has increased poll_count by one, and an invocation
\* that reached the loop leaves it.
C14_PollingBounded ==
    /\ [](/\ cg.rounds <= max_polls
          /\ cg.poll_count <= max_polls
          /\ cg.pc = "loop" => cg.rounds = cg.poll_count
          /\ cg.pc \in {"future", "repost", "fetch"} => cg.rounds = cg.poll_count + 1)
    /\ (cg.pc = "loop") ~> (cg.pc \in {"final", "done"})

C14_Witness ==
    /\ cg.pc = "final" /\ cg.rounds = max_polls /\ cg.poll_count = max_polls
    /\ cg.result.status = "processing"
    /\ {"FETCH", "FUTURE", "POST"} \subseteq cg.sent /\ cg.n_post > 1

\* the invocation ended with the provider still processing after max_polls
\* polls
BudgetExceeded(c) ==
    c.pc = "done" /\ c.result.status = "processing" /\ c.poll_count = max_polls

\* the invocation ended on a result the provider marked error or failed
ProviderRejected(c) == c.pc = "done" /\ c.result.status \in {"error", "failed"}

PollBudgetFailure == Err(500, "Unexpected status from ModelLab API: processing")

ProviderRejections ==
    {Err(500, "ModelLab API error: "), Err(500, "ModelLab API generation failed: ")}

\* C15: an invocation whose poll budget ran out while the provider still
\* said processing returns a failure and stores nothing, and the detail of
\* that failure is none of the details returned for a provider result of
\* status error or failed.
C15_BudgetFailureDistinct ==
    /\ BudgetExceeded(cg) =>
          /\ cg.response = PollBudgetFailure
          /\ cg.stored = 0
          /\ "DOWNLOAD" \notin cg.sent
    /\ ProviderRejected(cg) =>
          /\ cg.response \in ProviderRejections
          /\ cg.response.body # PollBudgetFailure.body
    /\ PollBudgetFailure \notin ProviderRejections

C15_Witness ==
    /\ BudgetExceeded(cg) /\ cg.response = PollBudgetFailure
    /\ "FETCH" \in cg.sent /\ cg.rounds = max_polls

\* C16: in the image, speech and image-transform workers, a 200 answer
\* whose payload is empty or shorter than the minimum is never returned as
\* a success and no file is written for it: files are written only for
\* payloads of at least the minimum length.
C16_SmallPayloadNeverStored ==
    /\ \A k \in DOMAIN img.tried :
          LET e == img.tried[k] IN
          (e.status = 200 /\ e.size < ImgMinBytes) => (e.kind = "small" /\ e.advanced)
    /\ img.stored = Cardinality({k \in DOMAIN img.tried : img.tried[k].kind = "ok"})
    /\ (img.pc = "done" /\ img.response.kind = "ok") =>
          /\ img.tried[Len(img.tried)].size >= ImgMinBytes
          /\ img.stored = 1
    /\ (tts.pc = "done" /\ tts.status = 200 /\ tts.size < MinAudioBytes) =>
          (tts.response.kind = "http_error" /\ tts.stored = 0)
    /\ tts.stored = 1 => (tts.response.kind = "ok" /\ tts.size >= MinAudioBytes)
    /\ (cg.pc = "done" /\ "DOWNLOAD" \in cg.sent /\ cg.size < MinImageBytes) =>
          (cg.response.kind = "http_error" /\ cg.stored = 0)
    /\ cg.stored = 1 => (cg.response.kind = "ok" /\ cg.size >= MinImageBytes)
    /\ img.stored <= 1 /\ tts.stored <= 1 /\ cg.stored <= 1

\* an undersized answer of the first model, then a good one of the second
C16_Witness ==
    /\ img.pc = "done" /\ Len(img.tried) = 2
    /\ img.tried[1].status = 200 /\ img.tried[1].size = 99
    /\ img.tried[2].kind = "ok" /\ img.stored = 1

\* C17: execute, handed a job whose pipeline is none of the six types,
\* returns it failed with the unsupported-pipeline message and a completion
\* time, having called no worker.
C17_UnsupportedPipelineFails ==
    \A i \in DOMAIN tasks :
        LET t == tasks[i] IN
        (t.pc # "scheduled" /\ t.job.pipeline \notin PipelineType) =>
            /\ t.pc = "done"
            /\ t.calls = <<>>
            /\ t.job.status = FAILED
            /\ t.job.metadata.error_message = "Unsupported pipeline: " \o t.job.pipeline
            /\ t.job.metadata.completed_at # NoTime
            /\ t.job.outputs = t.loaded.outputs

C17_Witness ==
    \E i \in DOMAIN tasks :
        /\ tasks[i].pc = "done" /\ tasks[i].job.pipeline = UnsupportedPipeline
        /\ tasks[i].job.status = FAILED /\ tasks[i].calls = <<>>

\* C18: when execute has returned, completed_at is set, on a failed job as
\* on a completed one, and is not earlier than started_at, also when
\* started_at was set by an earlier call and kept.
C18_CompletedAfterStarted ==
    \A i \in DOMAIN tasks :
        LET t == tasks[i] IN
        t.pc = "done" =>
            /\ t.job.status \in Terminal
            /\ t.job.metadata.started_at # NoTime
            /\ t.job.metadata.completed_at # NoTime
            /\ t.job.metadata.completed_at >= t.job.metadata.started_at
            /\ t.loaded.metadata.completed_at # NoTime
                  => t.job.metadata.completed_at >= t.loaded.metadata.completed_at

C18_Witness ==
    \E i \in DOMAIN tasks :
        /\ tasks[i].pc = "done" /\ tasks[i].job.status = FAILED
        /\ tasks[i].loaded.status = COMPLETED
        /\ tasks[i].loaded.metadata.started_at # NoTime
        /\ tasks[i].job.metadata.started_at = tasks[i].loaded.metadata.started_at
        /\ tasks[i].job.metadata.completed_at > tasks[i].loaded.metadata.completed_at

\* the pipelines whose method can make more than one worker call
MultiStep == {"text_to_image", "speech_to_image"}

WorkerFailed(outcome) ==
    outcome.kind \in {"http_error", "timeout", "connect_error", "bad_body"}

\* every call but the language-model call of text_to_image and
\* speech_to_image, whose exception is swallowed
Mandatory(t, k) ==
    ~(t.calls[k].worker = "llm-worker" /\ t.job.pipeline \in MultiStep)

\* C20: a failed call of a mandatory step is the last call of its execution,
\* and with it the execution is over and the job failed, in memory and in the
\* store; no execution sends two requests to the same worker.
C20_NoRetry ==
    \A i \in DOMAIN tasks :
        LET t == tasks[i] IN
        /\ \A k \in DOMAIN t.calls :
              (Mandatory(t, k) /\ WorkerFailed(t.calls[k].outcome)) =>
                  /\ k = Len(t.calls)
                  /\ t.pc = "done"
                  /\ t.job.status = FAILED
                  /\ store[t.job_id].status = FAILED
        /\ \A k, l \in DOMAIN t.calls :
              t.calls[k].worker = t.calls[l].worker => k = l

C20_Witness ==
    \E i \in DOMAIN tasks :
        LET t == tasks[i] IN
        /\ t.pc = "done" /\ t.job.pipeline = "speech_to_image"
        /\ Len(t.calls) = 1
        /\ t.calls[1].worker = "stt-worker"
        /\ t.calls[1].outcome.kind = "http_error"
        /\ store[t.job_id].status = FAILED

\* the calls of execute_job_async made for a job
Dispatches(id) == {i \in DOMAIN tasks : tasks[i].job_id = id}

\* C21: execute_job_async is scheduled exactly once for every job created,
\* and for nothing else, so that no two executions of one identifier exist,
\* let alone overlap.
C21_DispatchedOnce ==
    /\ \A id \in DOMAIN store : Cardinality(Dispatches(id)) = 1
    /\ \A i \in DOMAIN tasks : tasks[i].job_id \in DOMAIN store
    /\ \A i, j \in DOMAIN tasks :
          (tasks[i].job_id = tasks[j].job_id /\ tasks[i].pc # "scheduled"
              /\ tasks[j].pc # "scheduled") => i = j

C21_Witness ==
    \E id \in DOMAIN store :
        \E i \in Dispatches(id) :
            /\ tasks[i].pc = "done" /\ tasks[i].job.status = COMPLETED
            /\ store[id].status = COMPLETED
            /\ Len(tasks) = Cardinality(DOMAIN store)

OutputFields == {"text", "image_url", "audio_url"}

\* C22 (the claim as stated): in the stored record of a job, an output field
\* that holds a value holds a value after every step, whatever executions
\* and updates follow.
C22_OutputsNeverCleared ==
    [][\A id \in DOMAIN store : \A f \in OutputFields :
          Truthy(store[id].outputs[f]) => Truthy(store'[id].outputs[f])]_vars

\* the identity and the request of a job, as a row holds them
Request(row) ==
    [job_id |-> row.job_id, pipeline |-> row.pipeline, inputs |-> row.inputs,
     options |-> row.options, created_at |-> row.created_at,
     metadata_created_at |-> row.metadata.created_at]

\* C23: the stored job_id, pipeline, inputs, options and created_at of a job
\* stay what create_job stored, through execute and update_job, and the Job
\* object an execution holds has the same values.
C23_RequestUnchanged ==
    /\ [][\A id \in DOMAIN store : Request(store'[id]) = Request(store[id])]_vars
    /\ [](\A id \in DOMAIN store :
              /\ store[id].job_id = id
              /\ store[id].created_at = store[id].metadata.created_at)
    /\ [](\A i \in DOMAIN tasks :
              (tasks[i].pc # "scheduled" /\ tasks[i].job_id \in DOMAIN store) =>
                  /\ Request(JobToRow(tasks[i].job)) = Request(store[tasks[i].job_id])
                  /\ tasks[i].job.metadata.created_at
                        = ParseIso(store[tasks[i].job_id].created_at))

C23_Witness ==
    \E i \in DOMAIN tasks :
        /\ Done(tasks[i]) /\ tasks[i].job.pipeline = "text_to_image"
        /\ tasks[i].job.status = COMPLETED
        /\ Len(tasks[i].calls) = 2 /\ tasks[i].calls[1].outcome.kind = "ok"
        /\ tasks[i].prompt = LlmText
        /\ store[tasks[i].job_id].outputs.image_url = ImageOut
        /\ store[tasks[i].job_id].inputs.text = "a cat"
        /\ store[tasks[i].job_id].options.style = "cinematic"

\* C24: a job's worker calls are one after another: every call but the
\* last has its answer or its failure, the task awaits exactly when its last
\* call has neither, and in speech_to_image the calls are, in this order, the
\* transcription, the cleanup (when there is one), the image.
C24_CallsSequential ==
    \A i \in DOMAIN tasks :
        LET t == tasks[i] IN
        /\ \A k \in DOMAIN t.calls : k < Len(t.calls) => t.calls[k].outcome # Pending
        /\ Cardinality({k \in DOMAIN t.calls : t.calls[k].outcome = Pending}) <= 1
        /\ t.pc = "await" <=> (t.calls # <<>> /\ LastCall(t).outcome = Pending)
        /\ (t.pc # "scheduled" /\ t.job.pipeline = "speech_to_image") =>
              /\ t.calls[1].worker = "stt-worker"
              /\ \A k \in DOMAIN t.calls :
                    /\ t.calls[k].worker = "llm-worker" =>
                          k = 2 /\ t.calls[1].outcome.kind = "ok"
                    /\ t.calls[k].worker = "image-worker" =>
                          /\ ~WorkerFailed(t.calls[1].outcome)
                          /\ k = 2 => ~Truthy(t.transcribed_text)
                          /\ k = 3 => t.calls[2].worker = "llm-worker"

C24_Witness ==
    \E i \in DOMAIN tasks :
        LET t == tasks[i] IN
        /\ t.pc = "await" /\ t.job.pipeline = "speech_to_image"
        /\ Len(t.calls) = 3
        /\ t.calls[1].outcome.kind = "ok"
        /\ WorkerFailed(t.calls[2].outcome)
        /\ t.calls[3].worker = "image-worker" /\ t.calls[3].outcome = Pending

\* C25: an execution calls update_job at most twice; every change of a
\* stored record is one such call, by an execution of that job; and an
\* execution that has made its terminal write makes no other.
C25_AtMostTwoWrites ==
    /\ [](\A i \in DOMAIN tasks : tasks[i].writes <= 2)
    /\ [][\A id \in DOMAIN store :
             store'[id] # store[id] =>
                 \E i \in DOMAIN tasks :
                     /\ tasks[i].job_id = id
                     /\ tasks'[i].writes = tasks[i].writes + 1]_vars
    /\ [][\A i \in DOMAIN tasks :
             tasks[i].pc = "done" =>
                 /\ tasks'[i].writes = tasks[i].writes
                 /\ tasks'[i].pc = "done"]_vars

C25_Witness ==
    \E i \in DOMAIN tasks :
        /\ Done(tasks[i]) /\ Len(tasks[i].calls) = 3
        /\ tasks[i].writes = 1
        /\ tasks[i].job.status = COMPLETED
        /\ store[tasks[i].job_id].status = COMPLETED

\* C26: execute entered with a job whose started_at is set leaves it as it
\* is, to the end of the call; entered with started_at unset, it sets it to
\* the time of the entry.
C26_StartedAtKept ==
    \A i \in DOMAIN tasks :
        LET t == tasks[i] IN
        t.pc # "scheduled" =>
            /\ t.loaded.metadata.started_at # NoTime
                  => t.job.metadata.started_at = t.loaded.metadata.started_at
            /\ t.loaded.metadata.started_at = NoTime
                  => /\ t.job.metadata.started_at # NoTime
                     /\ t.job.metadata.started_at >= t.job.metadata.created_at
                     /\ t.job.metadata.started_at < clock

C26_Witness ==
    \E i \in DOMAIN tasks :
        LET t == tasks[i] IN
        /\ t.pc = "await" /\ t.job.status = RUNNING
        /\ t.loaded.status = FAILED
        /\ t.loaded.metadata.started_at # NoTime
        /\ t.job.metadata.started_at = t.loaded.metadata.started_at
        /\ clock > t.loaded.metadata.completed_at + 1

\* C27: text_to_image without a style calls the image worker alone, with
\* the input text; with a style it first asks the language-model worker for
\* a rewrite of the input text in that style, and the image worker then gets
\* the rewrite when that call answered with one and the input text when it
\* did not.
C27_PromptOfTextToImage ==
    \A i \in DOMAIN tasks :
        LET t == tasks[i] IN
        (t.pc # "scheduled" /\ t.job.pipeline = "text_to_image") =>
            IF Truthy(t.job.options.style)
            THEN /\ t.calls[1].worker = "llm-worker"
                 /\ t.calls[1].input = "Rewrite this prompt in a " \o t.job.options.style
                                          \o " style: " \o t.job.inputs.text
                 /\ t.calls[1].outcome # Pending =>
                       /\ Len(t.calls) = 2
                       /\ t.calls[2].worker = "image-worker"
                       /\ t.calls[2].input = IF t.calls[1].outcome.kind = "ok"
                                             THEN t.calls[1].outcome.body
                                             ELSE t.job.inputs.text
            ELSE /\ Len(t.calls) = 1
                 /\ t.calls[1].worker = "image-worker"
                 /\ t.calls[1].input = t.job.inputs.text

C27_Witness ==
    \E i \in DOMAIN tasks :
        LET t == tasks[i] IN
        /\ t.pc = "await" /\ t.job.pipeline = "text_to_image"
        /\ t.job.options.style = "cinematic"
        /\ Len(t.calls) = 2
        /\ t.calls[1].outcome = Ok(LlmText)
        /\ t.calls[2].worker = "image-worker"
        /\ t.calls[2].input = LlmText /\ LlmText # t.job.inputs.text

\* C28: the image worker tries models_to_try from its first entry on, the
\* primary and then the fallbacks as listed; the model being tried is the one
\* after those left behind, each of which failed; and a model that answered
\* with an image is the last one tried: the invocation is over with that one
\* image stored.
C28_CandidatesInOrder ==
    /\ models_to_try[1] = HF_API_URL
    /\ \A k \in DOMAIN FALLBACK_MODELS : models_to_try[k + 1] = FALLBACK_MODELS[k]
    /\ Len(img.tried) <= Len(models_to_try)
    /\ \A k \in DOMAIN img.tried :
          /\ img.tried[k].model = k
          /\ k < Len(img.tried) => (img.tried[k].advanced /\ img.tried[k].kind # "ok")
          /\ img.tried[k].kind = "ok" =>
                /\ k = Len(img.tried)
                /\ img.pc = "done"
                /\ img.stored = 1
                /\ img.response = Ok(ImageOut)
    /\ img.pc \in {"post", "retry"} =>
          /\ img.candidate = Len(img.tried) + 1
          /\ img.candidate <= Len(models_to_try)
          /\ img.stored = 0
          /\ \A k \in DOMAIN img.tried : img.tried[k].advanced
    /\ img.stored <= 1

\* the primary is gone, the first fallback answers with an image, the second
\* fallback is never asked
C28_Witness ==
    /\ img.pc = "done" /\ Len(img.tried) = 2
    /\ img.tried[1].kind = "gone" /\ img.tried[1].model = 1
    /\ img.tried[2].kind = "ok" /\ img.tried[2].model = 2
    /\ img.stored = 1 /\ img.response = Ok(ImageOut)

\* C29 (the claim as stated): an invocation of the image-transform worker
\* posts the generation request at most once, and a provider that reports
\* processing is only asked again at its fetch_result address.
C29_GenerationPostedOnce ==
    /\ cg.n_post <= 1
    /\ cg.pc # "repost"

\* C30: every delay slept is bounded whatever the provider says: the image
\* worker's before its second request to a model is at most 30, and is 20
\* when the 503 answer carries no estimate; the image-transform worker's are
\* between 2 and 15; the transcription worker's is 10.
C30_DelaysBounded ==
    /\ \A d \in img.sleeps : d <= 30
    /\ img.pc = "post" =>
          \A a \in ImageAnswers :
              LET after == ImgAfterPost(img, a) IN
              /\ \A d \in after.sleeps \ img.sleeps : d <= 30
              /\ (a.status = 503 /\ a.est.kind = "absent") =>
                    (after.pc = "retry" /\ 20 \in after.sleeps)
              /\ after.pc = "retry" => a.status = 503
    /\ \A d \in cg.sleeps : 2 <= d /\ d <= 15
    /\ \A d \in stt.sleeps : d = 10

\* estimates of 60 and of nothing, for two models one after the other
C30_Witness ==
    /\ img.pc = "retry" /\ img.candidate = 2
    /\ img.sleeps = {20, 30}

\* the workers a worker_used value names (a comma-separated list)
WorkersNamed(worker_used) ==
    CASE worker_used = None -> {}
      [] worker_used = "stt-worker,llm-worker,image-worker"
            -> {"stt-worker", "llm-worker", "image-worker"}
      [] OTHER -> {worker_used}

\* C31 (the claim as stated): every worker that worker_used of a completed
\* job names was called in that execution and its call did not fail.
C31_OnlyProducersNamed ==
    \A i \in DOMAIN tasks :
        LET t == tasks[i] IN
        (Done(t) /\ t.job.status = COMPLETED) =>
            \A w \in WorkersNamed(t.job.metadata.worker_used) :
                \E k \in DOMAIN t.calls :
                    t.calls[k].worker = w /\ ~WorkerFailed(t.calls[k].outcome)

\* execute_job_async going on from await to await with the answers given,
\* to its end at time now
RECURSIVE Replay(_, _, _)
Replay(u, outcomes, now) ==
    IF u.pc # "await"
    THEN u
    ELSE Replay(execute_job_async_resume(u, outcomes[Len(u.calls)], now), outcomes, now)

\* the execution of t's job with no other job in the store and no other
\* execution around, given the answers and the clock readings t got
Alone(t) ==
    LET db == (t.job_id :> JobToRow(t.loaded))
        u == Replay(execute_job_async_begin(Task(t.job_id), db,
                                            t.job.metadata.started_at),
                    [k \in DOMAIN t.calls |-> t.calls[k].outcome],
                    t.job.metadata.completed_at) IN
    [job |-> u.job, row |-> AfterExecute(u, db).db[t.job_id]]

\* the record of a job that is executing is as the execution loaded it
Untouched(tk, st) ==
    \A i \in DOMAIN tk :
        tk[i].pc = "await" => st[tk[i].job_id] = JobToRow(tk[i].loaded)

\* a finished execution's job and record are those of the execution alone
EndsAsAlone(tk, st) ==
    \A i \in DOMAIN tk :
        tk[i].pc = "done" =>
            /\ tk[i].job = Alone(tk[i]).job
            /\ st[tk[i].job_id] = Alone(tk[i]).row

\* C32: with jobs executing side by side, a stored record changes only by
\* the terminal write of an execution of that same job; a step of one
\* execution leaves every other execution and every other record as they
\* are; after every step, a record is untouched while its job executes, and
\* the record a job has ended with is the one its execution produces alone,
\* given the same answers.
C32_JobsIsolated ==
    /\ [][\A id \in DOMAIN store :
             store'[id] # store[id] =>
                 \E i \in DOMAIN tasks :
                     /\ tasks[i].job_id = id
                     /\ tasks[i].pc # "done" /\ tasks'[i].pc = "done"
                     /\ store'[id] = JobToRow(tasks'[i].job)]_vars
    /\ [][\A i \in DOMAIN tasks :
             tasks'[i] # tasks[i] =>
                 \A j \in DOMAIN tasks \ {i} :
                     /\ tasks'[j] = tasks[j]
                     /\ store'[tasks[j].job_id] = store[tasks[j].job_id]]_vars
    /\ [][Untouched(tasks', store') /\ EndsAsAlone(tasks', store')]_vars

\* two executions that overlapped in time and ended differently
C32_Witness ==
    /\ Len(tasks) = 2
    /\ Done(tasks[1]) /\ Done(tasks[2])
    /\ tasks[1].job.metadata.started_at < tasks[2].job.metadata.completed_at
    /\ tasks[2].job.metadata.started_at < tasks[1].job.metadata.completed_at
    /\ store[1].status = FAILED /\ store[1].outputs.text = None
    /\ store[2].status = COMPLETED /\ store[2].outputs.text = LlmText

\* C33: no stored record ever has the status running.  A record is as
\* create_job wrote it (queued, no start time, no outputs, no error) for as
\* long as the job's execution has not ended, while the Job object in memory
\* is running with its start time set; so that a process that dies then
\* leaves the record queued with started_at unset.
C33_RunningNeverStored ==
    /\ \A id \in DOMAIN store :
          /\ store[id].status # RUNNING
          /\ store[id].status = QUEUED =>
                /\ store[id].metadata.started_at = IsoFormat(NoTime)
                /\ store[id].metadata.completed_at = IsoFormat(NoTime)
                /\ store[id].metadata.error_message = None
                /\ store[id].outputs = [text |-> None, image_url |-> None, audio_url |-> None]
          /\ store[id].status # QUEUED =>
                \E i \in Dispatches(id) : tasks[i].pc = "done" /\ tasks[i].writes = 1
    /\ \A i \in DOMAIN tasks :
          tasks[i].pc \in {"scheduled", "await"} =>
              /\ store[tasks[i].job_id].status = QUEUED
              /\ tasks[i].writes = 0
              /\ tasks[i].pc = "await" =>
                    /\ tasks[i].job.status = RUNNING
                    /\ tasks[i].job.metadata.started_at # NoTime

\* the second of three worker calls is under way
C33_Witness ==
    \E i \in DOMAIN tasks :
        /\ tasks[i].pc = "await" /\ Len(tasks[i].calls) = 2
        /\ tasks[i].job.pipeline = "speech_to_image"
        /\ tasks[i].job.status = RUNNING
        /\ tasks[i].job.metadata.started_at # NoTime
        /\ store[tasks[i].job_id].status = QUEUED
        /\ store[tasks[i].job_id].metadata.started_at = "null"

\* C34 (the claim as stated): in every stored record, and in the Job object
\* of every finished execution, a completed job has no error message and a
\* failed job has one.
C34_StatusAgreesWithError ==
    /\ \A id \in DOMAIN store :
          /\ store[id].status = COMPLETED => store[id].metadata.error_message = None
          /\ store[id].status = FAILED => store[id].metadata.error_message # None
    /\ \A i \in DOMAIN tasks :
          Done(tasks[i]) =>
              /\ tasks[i].job.status = COMPLETED
                    => tasks[i].job.metadata.error_message = None
              /\ tasks[i].job.status = FAILED
                    => tasks[i].job.metadata.error_message # None

====
